---- MODULE Spec2Model ----
(***************************************************************************)
(* Model of src/src/main.rs: a Producer thread (create_files) that keeps   *)
(* creating files in a working directory, and the Driver (main) that runs  *)
(* five observation strategies one after the other against that directory  *)
(* (read_dir, read_dir_sorted, read_dir_tokio, read_inotify,               *)
(* read_inotify_async), then stops the Producer and removes the directory. *)
(*                                                                         *)
(* The Driver's position is the pair <<phase, pc>>: phase is the statement *)
(* of main that is executing (one phase per strategy call), pc the         *)
(* position inside the strategy.  The Producer's position is ppc.          *)
(***************************************************************************)
EXTENDS Integers, Sequences, FiniteSets, TLC

\* Bounds of the model.
MaxTarget == 2      \* largest target count (max) that is explored
MaxFiles == 3       \* the Producer stops creating at this many files
MaxQueue == 2       \* capacity of the kernel's inotify event queue
MaxClock == 1       \* largest modification timestamp
MaxSecs == 1        \* largest whole number of seconds of an elapsed time

VARIABLES
    argc,           \* args.len() (main.rs:198)
    preexists,      \* whether the directory path exists at startup (main.rs:205)
    max,            \* the target count handed to every strategy (max_files)
    elapsed,        \* the Duration that main prints: whole seconds and the
                    \* sub-second part, in milliseconds
    line,           \* the duration as it is printed: <<digits, digits>>
    out,            \* the result lines printed so far (the strategy of each)
    phase,          \* the statement of main being executed
    pc,             \* position inside the running strategy
    count,          \* the running strategy's observation counter
    entry,          \* the result of the strategy's last I/O operation
    path,           \* the file the last directory entry names (0: none)
    snap,           \* number of files that existed when the listing (or the
                    \* subscription) was opened
    seen,           \* files the open listing has returned so far
    eof,            \* read_dir_tokio: the listing has reported its end
    relisted,       \* the strategy's outer loop has gone round at least once
    ordered_files,  \* read_dir_sorted: timestamp -> sequence of paths
    events,         \* decoded events read from the subscription, not yet consumed
    queue,          \* events queued in the kernel for the subscription
    watch,          \* a subscription on the directory exists
    ppc,            \* the Producer's position
    fcount,         \* the Producer's local count (suffix of the next file)
    nfiles,         \* number of files in the directory
    suffix,         \* suffix[f]: the numeric suffix of the name of file f
    mtime,          \* mtime[f]: modification timestamp of file f
    chan,           \* the Stop Signal channel
    dir             \* the working directory exists

vars == <<argc, preexists, max, elapsed, line, out, phase, pc, count, entry, path,
          snap, seen, eof, relisted, ordered_files, events, queue, watch, ppc,
          fcount, nfiles, suffix, mtime, chan, dir>>

\* What main is given and what it measures, the variables of the Driver's thread,
\* of the strategy it runs, and of the Producer.
envVars == <<argc, preexists, max, elapsed, line>>
mainVars == <<envVars, out, phase>>
stratVars == <<pc, count, entry, path, snap, seen, eof, relisted, ordered_files, events>>
prodVars == <<ppc, fcount, nfiles, suffix, mtime>>

\* A counter is followed one step past the target, and no further.
CountCap == max + 1

EmptyMap == [t \in {} |-> <<>>]

Strategies == <<"read_dir", "read_dir_sorted", "read_dir_tokio", "read_inotify",
                "read_inotify_async">>

StrategySet == {Strategies[i] : i \in 1..Len(Strategies)}


FirstPc(p) ==
    IF p \in {"read_dir", "read_dir_sorted"} THEN "list"
    ELSE IF p \in StrategySet THEN "start"
    ELSE "-"

\* main runs the strategies in the order of lines 224, 235, 246, 257, 268 and
\* then sends the Stop Signal (line 277).
PhaseAfter(p) ==
    CASE p = "read_dir" -> "read_dir_sorted"
      [] p = "read_dir_sorted" -> "read_dir_tokio"
      [] p = "read_dir_tokio" -> "read_inotify"
      [] p = "read_inotify" -> "read_inotify_async"
      [] p = "read_inotify_async" -> "send"

Init ==
    /\ argc \in 1..3
    /\ preexists \in BOOLEAN
    /\ max \in 1..MaxTarget
    /\ elapsed = [secs |-> 0, subsec_millis |-> 0]
    /\ line = <<>>
    /\ out = <<>>
    /\ phase = "args"
    /\ pc = "-"
    /\ count = 0
    /\ entry = "-"
    /\ path = 0
    /\ snap = 0
    /\ seen = {}
    /\ eof = FALSE
    /\ relisted = FALSE
    /\ ordered_files = EmptyMap
    /\ events = <<>>
    /\ queue = <<>>
    /\ watch = FALSE
    /\ ppc = "idle"
    /\ fcount = 1
    /\ nfiles = 0
    /\ suffix = <<>>
    /\ mtime = <<>>
    /\ chan = "none"
    /\ dir = preexists

(***************************************************************************)
(* The process.  A panic of the main thread unwinds main, which drops tx   *)
(* (the Producer then sees the channel disconnected), and the process      *)
(* exits, which ends the Producer thread wherever it is.                   *)
(***************************************************************************)
Running == phase \notin {"exit", "abort"}

\* What a strategy leaves behind when it returns or unwinds: its locals are gone.
ResetLocals ==
    /\ pc' = "-"
    /\ count' = 0
    /\ entry' = "-"
    /\ path' = 0
    /\ snap' = 0
    /\ seen' = {}
    /\ eof' = FALSE
    /\ relisted' = FALSE
    /\ ordered_files' = EmptyMap
    /\ events' = <<>>

MainPanic ==
    /\ phase' = "panic"
    /\ chan' = IF chan = "empty" THEN "disconnected" ELSE chan
    /\ ResetLocals
    /\ watch' = FALSE
    /\ queue' = <<>>

process_abort ==
    /\ phase = "panic"
    /\ phase' = "abort"
    /\ UNCHANGED <<envVars, out, stratVars, queue, watch, prodVars, chan, dir>>

(***************************************************************************)
(* The Producer: create_files, lines 14-29.                                *)
(***************************************************************************)
\* try_recv sees the signal: Ok(_) or Disconnected (line 18).
SignalPresent == chan \in {"sent", "disconnected"}

\* The kernel queues a CLOSE_WRITE event, which names the closed file, for a
\* watched directory; when the queue is full it queues one overflow event, which
\* carries no name, and drops what follows (the watch of lines 112-115).
Enqueue(q) ==
    IF ~watch THEN q
    ELSE IF Len(q) < MaxQueue THEN Append(q, "named")
    ELSE IF \E i \in 1..Len(q) : q[i] = "nameless" THEN q
    ELSE Append(q, "nameless")

\* the timestamp of the file created last: the clock does not go back
LastStamp == IF nfiles = 0 THEN 0 ELSE mtime[nfiles]

\* create_files_try_recv with Disconnected not matched: only Ok(_) stops the loop
create_files_try_recv_ok_only ==
    /\ Running
    /\ ppc = "recv"
    /\ ppc' = IF chan = "sent" THEN "done" ELSE "create"
    /\ chan' = IF chan = "sent" THEN "received" ELSE chan
    /\ UNCHANGED <<mainVars, stratVars, queue, watch, fcount, nfiles, suffix, mtime, dir>>

\* create_files_try_recv with Err(_) matched as a whole: Empty stops the loop too
create_files_try_recv_any_err ==
    /\ Running
    /\ ppc = "recv"
    /\ ppc' = "done"
    /\ chan' = IF chan = "sent" THEN "received" ELSE chan
    /\ UNCHANGED <<mainVars, stratVars, queue, watch, fcount, nfiles, suffix, mtime, dir>>

\* lines 17-23
create_files_try_recv ==
    /\ Running
    /\ ppc = "recv"
    /\ ppc' = IF SignalPresent THEN "done" ELSE "create"
    /\ chan' = IF chan = "sent" THEN "received" ELSE chan
    /\ UNCHANGED <<mainVars, stratVars, queue, watch, fcount, nfiles, suffix, mtime, dir>>

\* the file of the directory whose name has suffix n (0: there is none)
FileNamed(n) ==
    IF \E f \in 1..nfiles : suffix[f] = n
    THEN CHOOSE f \in 1..nfiles : suffix[f] = n
    ELSE 0

\* line 25, File::create succeeds: file<count>.txt is created, or truncated if
\* the directory has a file of that name already
create_files_create ==
    /\ Running
    /\ ppc = "create"
    /\ dir
    /\ nfiles < MaxFiles
    /\ \E tick \in 0..1 :
        /\ LastStamp + tick <= MaxClock
        /\ LET f == FileNamed(fcount)
           IN IF f = 0
              THEN /\ nfiles' = nfiles + 1
                   /\ suffix' = Append(suffix, fcount)
                   /\ mtime' = Append(mtime, LastStamp + tick)
              ELSE /\ mtime' = [mtime EXCEPT ![f] = LastStamp + tick]
                   /\ UNCHANGED <<nfiles, suffix>>
    /\ ppc' = "write"
    /\ UNCHANGED <<mainVars, stratVars, queue, watch, fcount, chan, dir>>

\* line 26, write_all succeeds: the file's modification time is set again
create_files_write ==
    /\ Running
    /\ ppc = "write"
    /\ \E tick \in 0..1 :
        /\ LastStamp + tick <= MaxClock
        /\ mtime' = [mtime EXCEPT ![FileNamed(fcount)] = LastStamp + tick]
    /\ ppc' = "close"
    /\ UNCHANGED <<mainVars, stratVars, queue, watch, fcount, nfiles, suffix, chan, dir>>

\* create_files_close without line 27: the next file gets the same name
create_files_close_same_name ==
    /\ Running
    /\ ppc = "close"
    /\ queue' = Enqueue(queue)
    /\ ppc' = "recv"
    /\ UNCHANGED <<mainVars, stratVars, watch, fcount, nfiles, suffix, mtime, chan, dir>>

\* lines 27-28: count += 1, and the file is closed at the end of the iteration
create_files_close ==
    /\ Running
    /\ ppc = "close"
    /\ fcount' = fcount + 1
    /\ queue' = Enqueue(queue)
    /\ ppc' = "recv"
    /\ UNCHANGED <<mainVars, stratVars, watch, nfiles, suffix, mtime, chan, dir>>

\* line 25, File::create fails: unwrap panics the Producer thread (only)
create_files_create_fail ==
    /\ Running
    /\ ppc = "create"
    /\ ppc' = "panic"
    /\ UNCHANGED <<mainVars, stratVars, queue, watch, fcount, nfiles, suffix, mtime, chan, dir>>

\* line 26, write_all fails: unwrap panics the Producer thread, whose unwinding
\* closes the file
create_files_write_fail ==
    /\ Running
    /\ ppc = "write"
    /\ ppc' = "panic"
    /\ queue' = Enqueue(queue)
    /\ UNCHANGED <<mainVars, stratVars, watch, fcount, nfiles, suffix, mtime, chan, dir>>


(***************************************************************************)
(* The Driver: main, lines 196-281.                                        *)
(***************************************************************************)
\* Return without the println that follows the call
Return_unprinted ==
    /\ out' = out
    /\ phase' = PhaseAfter(phase)
    /\ pc' = FirstPc(PhaseAfter(phase))
    /\ count' = 0
    /\ entry' = "-"
    /\ path' = 0
    /\ snap' = 0
    /\ seen' = {}
    /\ eof' = FALSE
    /\ relisted' = FALSE
    /\ ordered_files' = EmptyMap
    /\ events' = <<>>

\* A strategy returns normally: main takes the elapsed time, prints the result
\* line and calls the next strategy (lines 224-275).  out records whose line is
\* printed; what the line says of the elapsed time is main_println's.
Return ==
    /\ out' = Append(out, phase)
    /\ phase' = PhaseAfter(phase)
    /\ pc' = FirstPc(PhaseAfter(phase))
    /\ count' = 0
    /\ entry' = "-"
    /\ path' = 0
    /\ snap' = 0
    /\ seen' = {}
    /\ eof' = FALSE
    /\ relisted' = FALSE
    /\ ordered_files' = EmptyMap
    /\ events' = <<>>

\* main_args without the test of line 199
main_args_unchecked ==
    /\ phase = "args"
    /\ phase' = "exists"
    /\ UNCHANGED <<envVars, out, stratVars, queue, watch, prodVars, chan, dir>>

\* lines 198-201
main_args ==
    /\ phase = "args"
    /\ IF argc # 2 THEN MainPanic
       ELSE phase' = "exists" /\ UNCHANGED <<stratVars, queue, watch, chan>>
    /\ UNCHANGED <<envVars, out, prodVars, dir>>

\* lines 205-207
main_exists ==
    /\ phase = "exists"
    /\ IF preexists THEN MainPanic
       ELSE phase' = "create_dir" /\ UNCHANGED <<stratVars, queue, watch, chan>>
    /\ UNCHANGED <<envVars, out, prodVars, dir>>

\* line 205: the path exists but metadata fails for it (a dangling symbolic
\* link, a parent that cannot be searched), so is_ok() is false
main_exists_unreadable ==
    /\ phase = "exists"
    /\ preexists
    /\ phase' = "create_dir"
    /\ UNCHANGED <<envVars, out, stratVars, queue, watch, prodVars, chan, dir>>

\* line 209: create_dir_all creates the directory; it fails for a path that
\* exists and that metadata cannot read
main_create_dir ==
    /\ phase = "create_dir"
    /\ ~preexists
    /\ dir' = TRUE
    /\ phase' = "spawn"
    /\ UNCHANGED <<envVars, out, stratVars, queue, watch, prodVars, chan>>

main_create_dir_fail ==
    /\ phase = "create_dir"
    /\ MainPanic
    /\ UNCHANGED <<envVars, out, prodVars, dir>>

\* lines 211-217: the channel is created and the Producer thread spawned
main_spawn ==
    /\ phase = "spawn"
    /\ chan' = "empty"
    /\ ppc' = "recv"
    /\ phase' = "sleep"
    /\ UNCHANGED <<envVars, out, stratVars, queue, watch, fcount, nfiles, suffix, mtime, dir>>

\* line 220, then the call of line 224
main_sleep ==
    /\ phase = "sleep"
    /\ phase' = "read_dir"
    /\ pc' = FirstPc("read_dir")
    /\ UNCHANGED <<envVars, out, count, entry, path, snap, seen, eof, relisted,
                   ordered_files, events, queue, watch, prodVars, chan, dir>>

\* line 277: send fails, and is ignored, when the Producer has dropped rx
main_send ==
    /\ phase = "send"
    /\ chan' = IF ppc \in {"done", "panic"} THEN chan ELSE "sent"
    /\ phase' = "join"
    /\ UNCHANGED <<envVars, out, stratVars, queue, watch, prodVars, dir>>

\* main_join that does not wait for the Producer thread to end
main_join_no_wait ==
    /\ phase = "join"
    /\ phase' = "remove_dir"
    /\ UNCHANGED <<envVars, out, stratVars, queue, watch, prodVars, chan, dir>>

\* line 278: join waits for the Producer thread; unwrap panics if it panicked
main_join ==
    /\ phase = "join"
    /\ ppc \in {"done", "panic"}
    /\ IF ppc = "panic" THEN MainPanic
       ELSE phase' = "remove_dir" /\ UNCHANGED <<stratVars, queue, watch, chan>>
    /\ UNCHANGED <<envVars, out, prodVars, dir>>

\* line 280, and main returns
main_remove_dir ==
    /\ phase = "remove_dir"
    /\ dir' = FALSE
    /\ nfiles' = 0
    /\ suffix' = <<>>
    /\ mtime' = <<>>
    /\ phase' = "exit"
    /\ UNCHANGED <<envVars, out, stratVars, queue, watch, ppc, fcount, chan>>

main_remove_dir_fail ==
    /\ phase = "remove_dir"
    /\ MainPanic
    /\ UNCHANGED <<envVars, out, prodVars, dir>>

(***************************************************************************)
(* A directory listing.  The stream returns every file that existed when   *)
(* it was opened; a file created while it is read may or may not be        *)
(* returned.  The order is not specified.                                  *)
(***************************************************************************)
\* std::fs::read_dir(dir) succeeds
OpenDir ==
    /\ snap' = nfiles
    /\ seen' = {}

\* files the open listing can still return
Unread == (1..nfiles) \ seen

\* the listing may report its end
AtEnd == (1..snap) \subseteq seen

(***************************************************************************)
(* read_dir, lines 31-50.                                                  *)
(***************************************************************************)
\* line 35: the listing is opened
read_dir_list ==
    /\ phase = "read_dir" /\ pc = "list"
    /\ OpenDir
    /\ pc' = "next"
    /\ UNCHANGED <<mainVars, count, entry, path, eof, relisted, ordered_files, events,
                   queue, watch, prodVars, chan, dir>>

\* line 35: the listing cannot be opened; ? returns the error and main's unwrap
\* (line 224) panics
read_dir_list_fail ==
    /\ phase = "read_dir" /\ pc = "list"
    /\ MainPanic
    /\ UNCHANGED <<envVars, out, prodVars, dir>>

\* lines 35-36: the iterator yields an entry and count is incremented, or the
\* iterator ends and the for loop is left
read_dir_next ==
    /\ phase = "read_dir" /\ pc = "next"
    /\ \/ \E f \in Unread :
            /\ count < CountCap
            /\ count' = count + 1
            /\ seen' = seen \cup {f}
            /\ path' = f
            /\ entry' = "ok"
            /\ pc' = "entry"
       \/ /\ AtEnd
          /\ entry' = "end"
          /\ pc' = "outer"
          /\ UNCHANGED <<count, seen, path>>
    /\ UNCHANGED <<mainVars, snap, eof, relisted, ordered_files, events,
                   queue, watch, prodVars, chan, dir>>

\* lines 35-36: the iterator yields an error; count is incremented before the
\* entry is looked at
read_dir_next_err ==
    /\ phase = "read_dir" /\ pc = "next"
    /\ count < CountCap
    /\ count' = count + 1
    /\ entry' = "err"
    /\ pc' = "entry"
    /\ UNCHANGED <<mainVars, path, snap, seen, eof, relisted, ordered_files, events,
                   queue, watch, prodVars, chan, dir>>

\* read_dir_entry with the inner exit test one entry early
read_dir_entry_early ==
    /\ phase = "read_dir" /\ pc = "entry"
    /\ entry = "ok"
    /\ pc' = IF count + 1 = max THEN "outer" ELSE "next"
    /\ entry' = "-"
    /\ path' = 0
    /\ UNCHANGED <<mainVars, count, snap, seen, eof, relisted, ordered_files,
                   events, queue, watch, prodVars, chan, dir>>

\* lines 37-41: entry? is Ok; the inner exit test
read_dir_entry ==
    /\ phase = "read_dir" /\ pc = "entry"
    /\ entry = "ok"
    /\ pc' = IF count = max THEN "outer" ELSE "next"
    /\ entry' = "-"
    /\ path' = 0
    /\ UNCHANGED <<mainVars, count, snap, seen, eof, relisted, ordered_files,
                   events, queue, watch, prodVars, chan, dir>>

\* line 37: entry? returns the error, and main's unwrap (line 224) panics
read_dir_entry_err ==
    /\ phase = "read_dir" /\ pc = "entry"
    /\ entry = "err"
    /\ MainPanic
    /\ UNCHANGED <<envVars, out, prodVars, dir>>

\* read_dir_outer without the exit test: the loop is left after one listing
read_dir_outer_once ==
    /\ phase = "read_dir" /\ pc = "outer"
    /\ pc' = "ret"
    /\ snap' = 0
    /\ seen' = {}
    /\ entry' = "-"
    /\ UNCHANGED <<mainVars, count, path, eof, relisted, ordered_files,
                   events, queue, watch, prodVars, chan, dir>>

\* lines 42-46: the for loop is left, which drops the listing; the outer exit
\* test; the loop lists again when it fails
read_dir_outer ==
    /\ phase = "read_dir" /\ pc = "outer"
    /\ IF count = max
       THEN pc' = "ret" /\ relisted' = relisted
       ELSE pc' = "list" /\ relisted' = TRUE
    /\ snap' = 0
    /\ seen' = {}
    /\ entry' = "-"
    /\ UNCHANGED <<mainVars, count, path, eof, ordered_files, events,
                   queue, watch, prodVars, chan, dir>>

\* line 49: Ok(())
read_dir_return ==
    /\ phase = "read_dir" /\ pc = "ret"
    /\ Return
    /\ UNCHANGED <<envVars, queue, watch, prodVars, chan, dir>>


(***************************************************************************)
(* read_dir_sorted, lines 52-108.                                          *)
(***************************************************************************)
\* Insert with insert() called for every path: a path whose timestamp is in the
\* mapping already replaces the row of that timestamp
Insert_replace(m, t, p) ==
    [x \in DOMAIN m \cup {t} |-> IF x = t THEN <<p>> ELSE m[x]]

\* line 54: a BTreeMap is iterated by taking its keys from the smallest on
RECURSIVE Ascending(_)
Ascending(S) ==
    IF S = {} THEN <<>>
    ELSE LET t == CHOOSE x \in S : \A y \in S : x <= y
         IN <<t>> \o Ascending(S \ {t})

\* lines 89-95: the path goes to the front of the row of its timestamp
Insert(m, t, p) ==
    IF t \in DOMAIN m
    THEN [m EXCEPT ![t] = <<p>> \o @]
    ELSE [x \in DOMAIN m \cup {t} |-> IF x = t THEN <<p>> ELSE m[x]]

\* line 59
read_dir_sorted_list ==
    /\ phase = "read_dir_sorted" /\ pc = "list"
    /\ OpenDir
    /\ pc' = "next"
    /\ UNCHANGED <<mainVars, count, entry, path, eof, relisted, ordered_files, events,
                   queue, watch, prodVars, chan, dir>>

\* line 59: ? returns the error and main's unwrap (line 235) panics
read_dir_sorted_list_fail ==
    /\ phase = "read_dir_sorted" /\ pc = "list"
    /\ MainPanic
    /\ UNCHANGED <<envVars, out, prodVars, dir>>

\* lines 59-60
read_dir_sorted_next ==
    /\ phase = "read_dir_sorted" /\ pc = "next"
    /\ \/ \E f \in Unread :
            /\ count < CountCap
            /\ count' = count + 1
            /\ seen' = seen \cup {f}
            /\ path' = f
            /\ entry' = "ok"
            /\ pc' = "entry"
       \/ /\ AtEnd
          /\ entry' = "end"
          /\ pc' = "outer"
          /\ UNCHANGED <<count, seen, path>>
    /\ UNCHANGED <<mainVars, snap, eof, relisted, ordered_files, events,
                   queue, watch, prodVars, chan, dir>>

\* lines 59-60: the iterator yields an error
read_dir_sorted_next_err ==
    /\ phase = "read_dir_sorted" /\ pc = "next"
    /\ count < CountCap
    /\ count' = count + 1
    /\ entry' = "err"
    /\ pc' = "entry"
    /\ UNCHANGED <<mainVars, path, snap, seen, eof, relisted, ordered_files, events,
                   queue, watch, prodVars, chan, dir>>

\* line 61: entry? is Ok
read_dir_sorted_entry ==
    /\ phase = "read_dir_sorted" /\ pc = "entry"
    /\ entry = "ok"
    /\ pc' = "meta"
    /\ UNCHANGED <<mainVars, count, entry, path, snap, seen, eof, relisted, ordered_files,
                   events, queue, watch, prodVars, chan, dir>>

\* line 61: entry? returns the error, and main's unwrap (line 235) panics
read_dir_sorted_entry_err ==
    /\ phase = "read_dir_sorted" /\ pc = "entry"
    /\ entry = "err"
    /\ MainPanic
    /\ UNCHANGED <<envVars, out, prodVars, dir>>

\* lines 64-99: the timestamp is read, the path inserted, and the inner exit
\* test made
read_dir_sorted_metadata ==
    /\ phase = "read_dir_sorted" /\ pc = "meta"
    /\ ordered_files' = Insert(ordered_files, mtime[path], path)
    /\ entry' = "-"
    /\ path' = 0
    /\ pc' = IF count = max THEN "outer" ELSE "next"
    /\ UNCHANGED <<mainVars, count, snap, seen, eof, relisted, events,
                   queue, watch, prodVars, chan, dir>>

\* lines 64-86: metadata, modified or duration_since fails; the message is
\* printed and `continue` goes to the next entry
MetaFailures == {"metadata", "modified", "duration_since"}

read_dir_sorted_metadata_fail ==
    /\ phase = "read_dir_sorted" /\ pc = "meta"
    /\ \E failure \in MetaFailures : entry' = "-"
    /\ path' = 0
    /\ pc' = "next"
    /\ UNCHANGED <<mainVars, count, snap, seen, eof, relisted, ordered_files, events,
                   queue, watch, prodVars, chan, dir>>

\* lines 100-104: the for loop is left, which drops the listing; the outer exit
\* test
read_dir_sorted_outer ==
    /\ phase = "read_dir_sorted" /\ pc = "outer"
    /\ IF count = max
       THEN pc' = "ret" /\ relisted' = relisted
       ELSE pc' = "list" /\ relisted' = TRUE
    /\ snap' = 0
    /\ seen' = {}
    /\ entry' = "-"
    /\ UNCHANGED <<mainVars, count, path, eof, ordered_files, events,
                   queue, watch, prodVars, chan, dir>>

\* line 107
read_dir_sorted_return ==
    /\ phase = "read_dir_sorted" /\ pc = "ret"
    /\ Return
    /\ UNCHANGED <<envVars, queue, watch, prodVars, chan, dir>>

(***************************************************************************)
(* read_dir_tokio, lines 173-194.  The listing is opened once, before the  *)
(* loop; once next_entry has returned Ok(None) it returns Ok(None) again.  *)
(***************************************************************************)
\* lines 174-179
read_dir_tokio_start ==
    /\ phase = "read_dir_tokio" /\ pc = "start"
    /\ OpenDir
    /\ pc' = "next"
    /\ UNCHANGED <<mainVars, count, entry, path, eof, relisted, ordered_files, events,
                   queue, watch, prodVars, chan, dir>>

\* lines 174, 177: Runtime::new or read_dir fails, unwrap panics
read_dir_tokio_start_fail ==
    /\ phase = "read_dir_tokio" /\ pc = "start"
    /\ MainPanic
    /\ UNCHANGED <<envVars, out, prodVars, dir>>

\* line 183: next_entry completes with Ok(Some(_)) or Ok(None)
read_dir_tokio_next_entry ==
    /\ phase = "read_dir_tokio" /\ pc = "next"
    /\ \/ /\ ~eof
          /\ \E f \in Unread :
                /\ seen' = seen \cup {f}
                /\ path' = f
                /\ entry' = "ok"
          /\ eof' = eof
       \/ /\ eof \/ AtEnd
          /\ entry' = "end"
          /\ eof' = TRUE
          /\ UNCHANGED <<seen, path>>
    /\ pc' = "event"
    /\ UNCHANGED <<mainVars, count, snap, relisted, ordered_files, events,
                   queue, watch, prodVars, chan, dir>>

\* line 183: next_entry completes with Err(_)
read_dir_tokio_next_entry_err ==
    /\ phase = "read_dir_tokio" /\ pc = "next"
    /\ ~eof
    /\ entry' = "err"
    /\ pc' = "event"
    /\ UNCHANGED <<mainVars, count, path, snap, seen, eof, relisted, ordered_files, events,
                   queue, watch, prodVars, chan, dir>>

\* lines 184-189: only Ok(Some(_)) is counted and tested; anything else goes
\* round the loop
read_dir_tokio_event ==
    /\ phase = "read_dir_tokio" /\ pc = "event"
    /\ IF entry = "ok"
       THEN /\ count < CountCap
            /\ count' = count + 1
            /\ pc' = IF count + 1 = max THEN "ret" ELSE "next"
       ELSE /\ count' = count
            /\ pc' = "next"
    /\ path' = 0
    /\ UNCHANGED <<mainVars, entry, snap, seen, eof, relisted, ordered_files, events,
                   queue, watch, prodVars, chan, dir>>

\* line 193
read_dir_tokio_return ==
    /\ phase = "read_dir_tokio" /\ pc = "ret"
    /\ Return
    /\ UNCHANGED <<envVars, queue, watch, prodVars, chan, dir>>


(***************************************************************************)
(* read_inotify, lines 110-140.                                            *)
(***************************************************************************)
\* lines 111-118: the subscription is established; it reports the files that
\* are closed from now on
read_inotify_start ==
    /\ phase = "read_inotify" /\ pc = "start"
    /\ watch' = TRUE
    /\ queue' = <<>>
    /\ snap' = nfiles
    /\ pc' = "read"
    /\ UNCHANGED <<mainVars, count, entry, path, seen, eof, relisted, ordered_files,
                   events, prodVars, chan, dir>>

\* lines 111-115: init or add fails, expect panics
read_inotify_start_fail ==
    /\ phase = "read_inotify" /\ pc = "start"
    /\ MainPanic
    /\ UNCHANGED <<envVars, out, prodVars, dir>>

\* lines 121-123: the blocking read returns once the queue holds an event, with
\* all the events that are queued
read_inotify_read ==
    /\ phase = "read_inotify" /\ pc = "read"
    /\ queue # <<>>
    /\ events' = queue
    /\ queue' = <<>>
    /\ pc' = "event"
    /\ UNCHANGED <<mainVars, count, entry, path, snap, seen, eof, relisted, ordered_files,
                   watch, prodVars, chan, dir>>

\* lines 121-123: the read fails, expect panics
read_inotify_read_fail ==
    /\ phase = "read_inotify" /\ pc = "read"
    /\ MainPanic
    /\ UNCHANGED <<envVars, out, prodVars, dir>>

\* lines 125-134: one turn of the for loop over the events that were read
read_inotify_event ==
    /\ phase = "read_inotify" /\ pc = "event"
    /\ IF events = <<>>
       THEN /\ pc' = "outer"
            /\ UNCHANGED <<count, entry, events>>
       ELSE /\ entry' = Head(events)
            /\ IF Head(events) = "named"
               THEN /\ count < CountCap
                    /\ count' = count + 1
                    /\ IF count + 1 = max
                       THEN pc' = "outer" /\ events' = <<>>
                       ELSE pc' = "event" /\ events' = Tail(events)
               ELSE /\ count' = count
                    /\ pc' = "event"
                    /\ events' = Tail(events)
    /\ UNCHANGED <<mainVars, path, snap, seen, eof, relisted, ordered_files,
                   queue, watch, prodVars, chan, dir>>

\* lines 136-138
read_inotify_outer ==
    /\ phase = "read_inotify" /\ pc = "outer"
    /\ pc' = IF count = max THEN "ret" ELSE "read"
    /\ relisted' = (relisted \/ count # max)
    /\ UNCHANGED <<mainVars, count, entry, path, snap, seen, eof, ordered_files, events,
                   queue, watch, prodVars, chan, dir>>

\* line 140: the function returns and the subscription is dropped
read_inotify_return ==
    /\ phase = "read_inotify" /\ pc = "ret"
    /\ Return
    /\ watch' = FALSE
    /\ queue' = <<>>
    /\ UNCHANGED <<envVars, prodVars, chan, dir>>

(***************************************************************************)
(* read_inotify_async, lines 142-171.                                      *)
(***************************************************************************)
\* lines 143-158
read_inotify_async_start ==
    /\ phase = "read_inotify_async" /\ pc = "start"
    /\ watch' = TRUE
    /\ queue' = <<>>
    /\ snap' = nfiles
    /\ pc' = "next"
    /\ UNCHANGED <<mainVars, count, entry, path, seen, eof, relisted, ordered_files,
                   events, prodVars, chan, dir>>

\* lines 143-156: init, add, Runtime::new or into_event_stream fails
read_inotify_async_start_fail ==
    /\ phase = "read_inotify_async" /\ pc = "start"
    /\ MainPanic
    /\ UNCHANGED <<envVars, out, prodVars, dir>>

\* line 162: stream.next() completes with Some(Ok(event)): the next event of
\* the stream's buffer, which is filled from the queue when it is empty
read_inotify_async_next ==
    /\ phase = "read_inotify_async" /\ pc = "next"
    /\ IF events # <<>>
       THEN /\ entry' = Head(events)
            /\ events' = Tail(events)
            /\ queue' = queue
       ELSE /\ queue # <<>>
            /\ entry' = Head(queue)
            /\ events' = Tail(queue)
            /\ queue' = <<>>
    /\ pc' = "event"
    /\ UNCHANGED <<mainVars, count, path, snap, seen, eof, relisted, ordered_files,
                   watch, prodVars, chan, dir>>

\* line 162: stream.next() completes with Some(Err(_)): the read that fills the
\* stream's buffer fails
read_inotify_async_next_err ==
    /\ phase = "read_inotify_async" /\ pc = "next"
    /\ events = <<>>
    /\ entry' = "err"
    /\ pc' = "event"
    /\ UNCHANGED <<mainVars, count, path, snap, seen, eof, relisted, ordered_files, events,
                   queue, watch, prodVars, chan, dir>>

\* lines 162-167: whatever stream.next() returned, count is incremented and
\* tested
read_inotify_async_event ==
    /\ phase = "read_inotify_async" /\ pc = "event"
    /\ count < CountCap
    /\ count' = count + 1
    /\ pc' = IF count + 1 = max THEN "ret" ELSE "next"
    /\ UNCHANGED <<mainVars, entry, path, snap, seen, eof, relisted, ordered_files, events,
                   queue, watch, prodVars, chan, dir>>

\* lines 170-171: block_on returns and the stream is dropped
read_inotify_async_return ==
    /\ phase = "read_inotify_async" /\ pc = "ret"
    /\ Return
    /\ watch' = FALSE
    /\ queue' = <<>>
    /\ UNCHANGED <<envVars, prodVars, chan, dir>>

(***************************************************************************)
(* The specifications.                                                     *)
(***************************************************************************)
\* The Producer thread's steps when no I/O operation fails.
Producer ==
    \/ create_files_try_recv
    \/ create_files_create
    \/ create_files_write
    \/ create_files_close

\* The main thread's steps when no I/O operation fails.
Driver ==
    \/ main_args
    \/ main_exists
    \/ main_create_dir
    \/ main_spawn
    \/ main_sleep
    \/ read_dir_list
    \/ read_dir_next
    \/ read_dir_entry
    \/ read_dir_outer
    \/ read_dir_return
    \/ read_dir_sorted_list
    \/ read_dir_sorted_next
    \/ read_dir_sorted_entry
    \/ read_dir_sorted_metadata
    \/ read_dir_sorted_outer
    \/ read_dir_sorted_return
    \/ read_dir_tokio_start
    \/ read_dir_tokio_next_entry
    \/ read_dir_tokio_event
    \/ read_dir_tokio_return
    \/ read_inotify_start
    \/ read_inotify_read
    \/ read_inotify_event
    \/ read_inotify_outer
    \/ read_inotify_return
    \/ read_inotify_async_start
    \/ read_inotify_async_next
    \/ read_inotify_async_event
    \/ read_inotify_async_return
    \/ main_send
    \/ main_join
    \/ main_remove_dir
    \/ process_abort

\* The failures of I/O operations, and what propagates them.
Failures ==
    \/ create_files_create_fail
    \/ create_files_write_fail
    \/ main_exists_unreadable
    \/ main_create_dir_fail
    \/ read_dir_list_fail
    \/ read_dir_next_err
    \/ read_dir_entry_err
    \/ read_dir_sorted_list_fail
    \/ read_dir_sorted_next_err
    \/ read_dir_sorted_entry_err
    \/ read_dir_sorted_metadata_fail
    \/ read_dir_tokio_start_fail
    \/ read_dir_tokio_next_entry_err
    \/ read_inotify_start_fail
    \/ read_inotify_read_fail
    \/ read_inotify_async_start_fail
    \/ read_inotify_async_next_err
    \/ main_remove_dir_fail

Next == Producer \/ Driver \/ Failures

Spec == Init /\ [][Next]_vars

\* No I/O operation fails, and both threads keep being scheduled.
NextNoFailure == Producer \/ Driver

LiveSpec == Init /\ [][NextNoFailure]_vars /\ WF_vars(Producer) /\ WF_vars(Driver)

\* I/O operations may fail, and both threads keep being scheduled.
FairSpec == Init /\ [][Next]_vars /\ WF_vars(Producer) /\ WF_vars(Driver)


(***************************************************************************)
(* The result line: lines 225-231, and the same after each strategy.  The  *)
(* printing is followed on its own, for every elapsed time, from the state *)
(* in which a strategy has returned.                                       *)
(***************************************************************************)
\* Duration::as_secs and Duration::as_millis (lines 229-230)
as_secs(d) == d.secs

as_millis(d) == d.secs * 1000 + d.subsec_millis

\* the decimal digits of a number, as {} displays it
RECURSIVE Digits(_)
Digits(n) == IF n < 10 THEN <<n>> ELSE Digits(n \div 10) \o <<n % 10>>

\* {:0>w}: zeros are put in front until the width is w
RECURSIVE PadLeft(_, _)
PadLeft(s, w) == IF Len(s) >= w THEN s ELSE PadLeft(<<0>> \o s, w)

\* lines 225-231: "{}.{:0>3}s" of elapsed.as_secs() and elapsed.as_millis()
main_println ==
    /\ phase \in StrategySet /\ pc = "ret"
    /\ line = <<>>
    /\ line' = <<Digits(as_secs(elapsed)), PadLeft(Digits(as_millis(elapsed)), 3)>>
    /\ UNCHANGED <<argc, preexists, max, elapsed, out, phase, stratVars, queue, watch,
                   prodVars, chan, dir>>

\* A strategy has returned after some elapsed time, with the Producer running.
PrintInit ==
    /\ argc = 2
    /\ preexists = FALSE
    /\ max \in 1..MaxTarget
    /\ elapsed \in [secs : 0..MaxSecs, subsec_millis : 0..999]
    /\ line = <<>>
    /\ \E k \in 1..Len(Strategies) :
            /\ phase = Strategies[k]
            /\ out = SubSeq(Strategies, 1, k - 1)
    /\ pc = "ret"
    /\ count = max
    /\ entry = "-"
    /\ path = 0
    /\ snap = 0
    /\ seen = {}
    /\ eof = FALSE
    /\ relisted = FALSE
    /\ ordered_files = EmptyMap
    /\ events = <<>>
    /\ queue = <<>>
    /\ watch = FALSE
    /\ ppc = "recv"
    /\ fcount = 1
    /\ nfiles = 0
    /\ suffix = <<>>
    /\ mtime = <<>>
    /\ chan = "empty"
    /\ dir = TRUE

PrintNext == main_println

PrintSpec == PrintInit /\ [][PrintNext]_vars

(***************************************************************************)
(* The claims.                                                             *)
(***************************************************************************)
EnumStrategies == {"read_dir", "read_dir_sorted", "read_dir_tokio"}

WatchStrategies == {"read_inotify", "read_inotify_async"}

\* The Producer is inside its loop.
InLoop == ppc \in {"recv", "create", "write", "close"}

\* The main thread takes a step.
MainStep == <<phase, pc>>' # <<phase, pc>>

NamedIn(q) == Cardinality({i \in 1..Len(q) : q[i] = "named"})

\* C1: no strategy returns normally while its counter is below the target: at
\* the moment a strategy returns, counter >= target.
Theorem_C1 == (phase \in StrategySet /\ pc = "ret") => count >= max

\* The blocking watch strategy is about to return with the largest target.
Witness_C1 == phase = "read_inotify" /\ pc = "ret" /\ max = MaxTarget /\ count = max

\* The named events a watch strategy can still be given within the bounds of
\* the model: those read, those queued, and the files the Producer can still
\* close.
Supply ==
    count + NamedIn(events) + NamedIn(queue) + (MaxFiles - nfiles)
        + (IF ppc \in {"write", "close"} THEN 1 ELSE 0)

\* C2: when no I/O operation fails and both threads keep running, each of the
\* five strategies eventually returns, whatever the directory held when it
\* started (for the watch strategies: as long as the model's Producer can still
\* supply the events).
CE_C2 ==
    /\ (phase = "read_dir") ~> (phase # "read_dir")
    /\ (phase = "read_dir_sorted") ~> (phase # "read_dir_sorted")
    /\ (phase = "read_dir_tokio") ~> (phase # "read_dir_tokio")
    /\ (phase = "read_inotify" /\ watch /\ Supply >= max) ~> (phase # "read_inotify")
    /\ (phase = "read_inotify_async" /\ watch /\ Supply >= max)
            ~> (phase # "read_inotify_async")

\* The strategy waits for the Producer: it has no step until a file is closed.
Blocked ==
    \/ phase = "read_inotify" /\ pc = "read" /\ queue = <<>>
    \/ phase = "read_inotify_async" /\ pc = "next" /\ events = <<>> /\ queue = <<>>

\* The first listing (or read pass) of a strategy that started with at least
\* target-count files has ended.
FirstPassOver == ~relisted /\ snap >= max /\ (pc = "outer" \/ eof)

\* A file that existed when the listing was opened has not been returned yet:
\* the listing has a next entry whatever the Producer does.
OldEntryLeft == (1..snap) \ seen # {}

\* C3, as claimed: a strategy that starts when at least target-count files exist
\* reaches its target in its first pass, from what exists already, and never
\* waits for the Producer; this for each of the five strategies.
CE_C3 ==
    (phase \in StrategySet /\ ~relisted /\ snap >= max) =>
        /\ ~Blocked
        /\ (phase \in EnumStrategies /\ pc = "next" /\ count < max) => OldEntryLeft
        /\ FirstPassOver => count >= max

\* C3, amended: this holds of the three enumeration strategies.  While the
\* counter is below the target the first listing still has an entry that existed
\* when it was opened.  The first listing of read_dir_sorted never ends with the
\* counter below the target; that of read_dir ends with the counter at the target,
\* and read_dir returns; that of read_dir_tokio never reports its end, because
\* the strategy returns before.
Theorem_C3 ==
    (phase \in EnumStrategies /\ ~relisted /\ snap >= max) =>
        /\ (pc = "next" /\ count < max) => OldEntryLeft
        /\ FirstPassOver => count >= max
        /\ (phase = "read_dir" /\ pc = "outer") => count = max
        /\ phase = "read_dir_tokio" => ~eof

\* read_dir leaves its first listing, which found the files of the largest
\* target already there, with the counter at the target.
Witness_C3 ==
    /\ phase = "read_dir" /\ pc = "outer" /\ ~relisted
    /\ max = MaxTarget /\ snap >= max /\ count = max

\* C4: read_dir_tokio does what read_dir does: when a listing ends with the
\* counter below the target, the directory is listed again.
CE_C4 ==
    [][(/\ phase \in {"read_dir", "read_dir_tokio"}
        /\ pc \in {"outer", "event"}
        /\ entry = "end"
        /\ count # max
        /\ MainStep) => pc' \in {"list", "start"}]_vars

RECURSIVE SumLen(_, _)
SumLen(m, S) ==
    IF S = {} THEN 0
    ELSE LET t == CHOOSE x \in S : TRUE IN Len(m[t]) + SumLen(m, S \ {t})

\* the paths stored in the ordered mapping
Stored == SumLen(ordered_files, DOMAIN ordered_files)

\* C5: in read_dir_sorted an entry whose metadata cannot be read is skipped: it
\* is not inserted and does not increase the counter that is compared with the
\* target, so between two entries the counter is the number of stored paths.
CE_C5 ==
    (phase = "read_dir_sorted" /\ pc \in {"next", "outer", "ret"}) => count = Stored

\* C6: read_inotify_async counts what read_inotify counts: the counter is
\* incremented for a decoded event that carries a name, and for nothing else.
CE_C6 ==
    [][(phase \in WatchStrategies /\ count' = count + 1) => entry' = "named"]_vars

\* The signal is present for the Producer's check: it was sent, or the sender
\* was dropped.
Signalled == chan \in {"sent", "disconnected"}

\* The Producer cannot create a file because the model's bound is reached.
Capped == ppc = "create" /\ nfiles = MaxFiles

\* C7: once the Stop Signal is present, the Producer's next check sees it and
\* leaves the loop, so the Producer creates at most one further file (the one
\* whose check preceded the signal); and the Driver's join returns.
Theorem_C7 ==
    /\ [][(Signalled /\ ppc' # ppc) =>
            /\ <<ppc, ppc'>> \in {<<"recv", "done">>, <<"create", "write">>,
                                  <<"write", "close">>, <<"close", "recv">>,
                                  <<"create", "panic">>, <<"write", "panic">>}
            /\ nfiles' <= nfiles + 1]_vars
    /\ [][(Signalled /\ nfiles' > nfiles) => (ppc = "create" /\ ppc' = "write")]_vars
    /\ (phase = "join" /\ ~Capped) ~> (phase # "join")

\* The Producer saw the signal and left its loop, and the join has returned.
Witness_C7 == phase = "remove_dir" /\ ppc = "done" /\ chan = "received"

\* main is past the call of the last strategy
AfterStrategies == phase \in {"send", "join", "remove_dir", "exit", "panic", "abort"}

\* C8, as claimed: the Producer leaves its loop only after the signal is sent.
CE_C8 == ppc = "done" => chan \in {"sent", "received"}

\* C8, amended: the signal is sent at most once, after all five strategies have
\* returned; when no file creation fails the Producer leaves its loop only
\* after the signal is sent or, when the main thread panics, after the
\* unwinding main has dropped the sender; so the Producer is in its loop
\* during the whole of every strategy's execution.
Theorem_C8 ==
    /\ [](chan \in {"sent", "received"} => AfterStrategies /\ phase # "send")
    /\ [](ppc = "done" =>
            \/ chan \in {"sent", "received"}
            \/ chan = "disconnected" /\ phase \in {"panic", "abort"})
    /\ [](phase \in StrategySet => (InLoop \/ ppc = "panic"))
    /\ [][(chan' = "sent") => (chan \in {"empty", "sent"} /\ (chan = "empty" => phase = "send"))]_vars
    /\ [][(chan \in {"sent", "received"}) => (chan' \in {"sent", "received"})]_vars

\* The last strategy is about to return while the Producer is creating a file
\* and no signal has been sent.
Witness_C8 ==
    /\ phase = "read_inotify_async" /\ pc = "ret"
    /\ ppc = "write" /\ chan = "empty"

\* C9: once the Producer has failed to create or write a file the process is
\* aborted: the main thread does not go on running or waiting in a strategy,
\* its only further step is the end of the process.
CE_C9 ==
    [][(ppc = "panic" /\ MainStep) => phase' \in {"panic", "abort"}]_vars

\* C10: a failed read of a directory entry or of the subscription is not
\* absorbed: the strategy's next step is to stop with the failure (the main
\* thread panics), and the failure is not counted.
CE_C10 ==
    [][(phase \in StrategySet /\ entry = "err" /\ MainStep) => phase' = "panic"]_vars

\* C11: the Producer creates one new file in every iteration of its loop, and
\* the k-th file it creates is named with the suffix k: the suffixes are
\* 1, 2, 3, ... in the order of creation, without gap or repetition.  The
\* number of files never decreases while the Producer runs, and is the
\* number of iterations the Producer has been through.
Theorem_C11 ==
    /\ [](dir /\ ppc # "idle" => \A f \in 1..nfiles : suffix[f] = f)
    /\ [](dir /\ ppc \in {"recv", "create", "done"} => nfiles = fcount - 1)
    /\ [](dir /\ ppc \in {"write", "close"} => nfiles = fcount)
    /\ [][(ppc = "create" /\ ppc' = "write") =>
            /\ nfiles' = nfiles + 1
            /\ suffix' = Append(suffix, nfiles + 1)]_vars
    /\ [][(ppc = "close" /\ ppc' = "recv") => fcount' = fcount + 1]_vars
    /\ [][(nfiles' # nfiles) =>
            \/ ppc = "create" /\ ppc' = "write"
            \/ ppc = "done" /\ phase = "remove_dir"]_vars
    /\ [][InLoop => nfiles' >= nfiles]_vars

\* The Producer is in the last iteration that the model follows and has created
\* the file of that iteration.
Witness_C11 ==
    ppc = "close" /\ fcount = MaxFiles /\ suffix = [f \in 1..MaxFiles |-> f]

\* the row of timestamp t in mapping m, empty when m has no such key
Row(m, t) == IF t \in DOMAIN m THEN m[t] ELSE <<>>

\* sequence r is the end of sequence q
IsSuffix(r, q) ==
    /\ Len(r) <= Len(q)
    /\ \A i \in 1..Len(r) : r[i] = q[Len(q) - Len(r) + i]

\* C12: in read_dir_sorted the mapping is iterated by strictly ascending
\* timestamp and no group is empty.  Every observation whose timestamp is read
\* puts its path in the group of that timestamp, in front of the paths that
\* are there, and leaves the other groups alone, so the number of stored paths
\* grows by one; no other step of the strategy changes the mapping, and no
\* step takes a path out of it.
Theorem_C12 ==
    /\ [](phase = "read_dir_sorted" =>
            LET keys == Ascending(DOMAIN ordered_files)
            IN /\ Len(keys) = Cardinality(DOMAIN ordered_files)
               /\ \A i, j \in 1..Len(keys) : i < j => keys[i] < keys[j]
               /\ \A t \in DOMAIN ordered_files : ordered_files[t] # <<>>)
    /\ [][read_dir_sorted_metadata =>
            /\ ordered_files'[mtime[path]] = <<path>> \o Row(ordered_files, mtime[path])
            /\ DOMAIN ordered_files' = DOMAIN ordered_files \cup {mtime[path]}
            /\ \A t \in DOMAIN ordered_files \ {mtime[path]} :
                    ordered_files'[t] = ordered_files[t]
            /\ SumLen(ordered_files', DOMAIN ordered_files') = Stored + 1]_vars
    /\ [][(phase = "read_dir_sorted" /\ phase' = phase) =>
            /\ \A t \in DOMAIN ordered_files :
                    /\ t \in DOMAIN ordered_files'
                    /\ IsSuffix(ordered_files[t], ordered_files'[t])
            /\ (ordered_files' # ordered_files) => pc = "meta"]_vars

\* The second listing has put a path in the group of its timestamp a second
\* time, and the strategy is about to return.
Witness_C12 ==
    /\ phase = "read_dir_sorted" /\ pc = "ret" /\ relisted
    /\ \E t \in DOMAIN ordered_files :
            /\ Len(ordered_files[t]) = MaxTarget
            /\ \A i \in 1..Len(ordered_files[t]) : ordered_files[t][i] = ordered_files[t][1]

\* The Driver is started with an argument count other than one, or with a
\* working directory path that exists.
BadStart == argc # 2 \/ preexists

\* C13: a Driver started with an argument count other than one, or with a path
\* that exists, does no work: it gets no further than the creation of the
\* directory, which it does not create; the channel and the Producer thread
\* are never created, the directory gets no file, no strategy is called and
\* nothing is printed; and the Driver has no other end than the abort.
Theorem_C13 ==
    BadStart =>
        /\ phase \in {"args", "exists", "create_dir", "panic", "abort"}
        /\ phase = "exists" => argc = 2
        /\ phase = "create_dir" => (argc = 2 /\ preexists)
        /\ dir = preexists
        /\ ppc = "idle" /\ chan = "none" /\ fcount = 1
        /\ nfiles = 0 /\ suffix = <<>>
        /\ pc = "-" /\ count = 0 /\ ~watch
        /\ out = <<>>

\* The Driver was started with one argument that names a path that exists, and
\* has aborted.
Witness_C13 == argc = 2 /\ preexists /\ phase = "abort"

\* The step is the recursive removal of the working directory by the Driver.
Removal == phase = "remove_dir" /\ phase' = "exit"

\* C14: the working directory only grows until the Driver removes it.  A step
\* that is not the Producer's leaves the directory and its files as they are,
\* unless it is main's creation or removal of the directory.  A file that is
\* there keeps its name, and its timestamp changes only by the write of the
\* iteration that created it.  The number of files grows only by the
\* Producer's creation, in a directory that exists.  The directory is removed
\* only by main's last step, after the Producer thread has ended and has been
\* joined, and on normal completion it does not exist and holds no file.
Theorem_C14 ==
    /\ [][(ppc' = ppc) =>
            \/ UNCHANGED <<dir, nfiles, suffix, mtime>>
            \/ phase = "create_dir" /\ ~dir /\ dir' /\ UNCHANGED <<nfiles, suffix, mtime>>
            \/ Removal]_vars
    /\ [][~Removal =>
            /\ nfiles' >= nfiles
            /\ \A f \in 1..nfiles :
                    /\ suffix'[f] = suffix[f]
                    /\ (mtime'[f] # mtime[f]) =>
                            (f = nfiles /\ ppc = "write" /\ ppc' = "close")]_vars
    /\ [][(nfiles' > nfiles) => (dir /\ dir' /\ ppc = "create" /\ Running)]_vars
    /\ [][(dir' # dir) => (phase = "create_dir" \/ Removal)]_vars
    /\ [][Removal => (ppc = "done" /\ ~dir' /\ nfiles' = 0)]_vars
    /\ [](phase = "remove_dir" => (ppc = "done" /\ chan = "received"))
    /\ [](phase = "exit" => (~dir /\ nfiles = 0 /\ ppc = "done"))

\* The Driver has completed normally after the Producer created files: the
\* directory is gone.
Witness_C14 == phase = "exit" /\ ~dir /\ ppc = "done" /\ fcount = MaxFiles + 1

\* the place of a strategy in main's order (0 for what is no strategy)
Rank(p) ==
    IF p \in StrategySet THEN CHOOSE k \in 1..Len(Strategies) : Strategies[k] = p
    ELSE 0

\* the result lines of the first k strategies
FirstLines(k) == SubSeq(Strategies, 1, k)

\* C15: the strategies run one at a time in the order read_dir,
\* read_dir_sorted, read_dir_tokio, read_inotify, read_inotify_async.  A
\* strategy starts only from the return of the one before it (the first one
\* from main's sleep), a strategy is left only by its return or by a panic, and
\* while strategy k runs exactly the result lines of strategies 1..k-1 have
\* been printed, one each, in that order; a line is printed only at the return
\* of its strategy, in the step that calls the next one; after the last
\* strategy all five lines are there.
Theorem_C15 ==
    /\ [](phase \in StrategySet => out = FirstLines(Rank(phase) - 1))
    /\ [](phase \in {"send", "join", "remove_dir", "exit"} => out = Strategies)
    /\ [](phase \in {"args", "exists", "create_dir", "spawn", "sleep"} => out = <<>>)
    /\ [](\E k \in 0..Len(Strategies) : out = FirstLines(k))
    /\ [](phase \in StrategySet <=> pc # "-")
    /\ [][(phase' \in StrategySet /\ phase' # phase) =>
            /\ pc' = FirstPc(phase')
            /\ \/ phase = "sleep" /\ phase' = Strategies[1]
               \/ /\ phase \in StrategySet /\ pc = "ret"
                  /\ Rank(phase') = Rank(phase) + 1]_vars
    /\ [][(phase \in StrategySet /\ phase' # phase) =>
            \/ pc = "ret" /\ phase' = PhaseAfter(phase) /\ out' = Append(out, phase)
            \/ phase' = "panic" /\ out' = out]_vars
    /\ [][(out' # out) =>
            (phase \in StrategySet /\ pc = "ret" /\ out' = Append(out, phase))]_vars

\* The last strategy runs, and the lines of the four before it are printed.
Witness_C15 ==
    /\ phase = "read_inotify_async" /\ pc = "event"
    /\ out = <<"read_dir", "read_dir_sorted", "read_dir_tokio", "read_inotify">>

\* the number that a sequence of decimal digits writes
RECURSIVE Value(_)
Value(s) == IF s = <<>> THEN 0 ELSE Value(SubSeq(s, 1, Len(s) - 1)) * 10 + s[Len(s)]

RECURSIVE Pow10(_)
Pow10(n) == IF n = 0 THEN 1 ELSE 10 * Pow10(n - 1)

\* C16: in the printed duration the field after the point is the sub-second
\* part of the elapsed time, in three digits, and the printed number, read as
\* a decimal, is the elapsed time in seconds truncated to the millisecond; this
\* for every elapsed time, those of one second or more too.
CE_C16 ==
    line # <<>> =>
        /\ Value(line[1]) = elapsed.secs
        /\ Len(line[2]) = 3
        /\ Value(line[2]) = elapsed.subsec_millis
        /\ (Value(line[1]) * Pow10(Len(line[2])) + Value(line[2])) * 1000
                = as_millis(elapsed) * Pow10(Len(line[2]))

\* C17: in every strategy the observation counter never exceeds the target,
\* also when read_dir_sorted cannot read the metadata of some entries and when
\* one read of read_inotify returns several events: every increment is followed
\* by the exit test before the next increment.
CE_C17 == phase \in StrategySet => count <= max

====
